---- MODULE Spec2Model ----
(***************************************************************************)
(* Model of wdom/document.py: the identity lookups, the Document skeleton, *)
(* the bootstrap scripts written by get_new_document and _set_autoreload,  *)
(* build(), register_theme, the tempdir finalizer and the rootDocument     *)
(* slot.                                                                   *)
(***************************************************************************)
EXTENDS Integers, Sequences, FiniteSets, TLC

VARIABLES
    documents,              \* document id -> Document object (or NoDocument)
    rootDocument,           \* the module-level rootDocument slot
    config,                 \* wdom.options.config (process-wide defaults)
    fs,                     \* document ids whose tempdir exists on the filesystem
    finalizers,             \* document ids whose weakref.finalize is still alive
    refs,                   \* document ids the application holds a strong reference to
    rmtree_calls,           \* document id -> number of shutil.rmtree calls on its tempdir
    raised,                 \* TRUE once an explicit finalizer call has raised
    cleaning,               \* document id -> "" or who runs _cleanup between its
                            \* isdir test and its rmtree call: "call", "collect"
    elements,               \* element id -> "new" (not yet created), "alive", "dead"
    elements_with_id,       \* Element._elements_with_id: key -> element id (0: no entry)
    elements_with_rimo_id,  \* WdomElement._elements_with_rimo_id
    op                      \* the last operation executed and what it returned

tempdirVars == <<fs, finalizers, rmtree_calls, raised, cleaning>>
registryVars == <<elements, elements_with_id, elements_with_rimo_id>>

vars == <<documents, rootDocument, config, refs, tempdirVars, registryVars, op>>

\* ------------------------------------------------------------------ bounds
MaxDocs == 2
MaxElems == 2
\* Calls on one document that add resources (register_theme, add_*).
MaxThemes == 2

Docs == 1..MaxDocs
Elems == 1..MaxElems
RootId == 1

\* ------------------------------------------------------------ Python values
\* A Python value of one of the kinds the options take: None, int, str, and
\* float, written as its integer part i and the sequence f of its decimal
\* digits after the point (a float >= 0 of at most 15 significant digits;
\* the integer part is a TLC integer, so it stays far below 10^16).
PyNone == [k |-> "none", i |-> 0, s |-> "", f |-> <<>>]
PyInt(n) == [k |-> "int", i |-> n, s |-> "", f |-> <<>>]
PyFloat(n, frac) == [k |-> "float", i |-> n, s |-> "", f |-> frac]
PyStr(t) == [k |-> "str", i |-> 0, s |-> t, f |-> <<>>]

Digit(n) ==
    CASE n = 0 -> "0" [] n = 1 -> "1" [] n = 2 -> "2" [] n = 3 -> "3"
      [] n = 4 -> "4" [] n = 5 -> "5" [] n = 6 -> "6" [] n = 7 -> "7"
      [] n = 8 -> "8" [] n = 9 -> "9"

RECURSIVE NatToStr(_)
NatToStr(n) == IF n < 10 THEN Digit(n) ELSE NatToStr(n \div 10) \o Digit(n % 10)

IntToStr(n) == IF n < 0 THEN "-" \o NatToStr(-n) ELSE NatToStr(n)

RECURSIVE Digits(_)
Digits(ds) == IF ds = <<>> THEN "" ELSE Digit(Head(ds)) \o Digits(Tail(ds))

RECURSIVE StripZeros(_)
StripZeros(ds) ==
    IF ds = <<>> THEN <<>>
    ELSE IF ds[Len(ds)] = 0 THEN StripZeros(SubSeq(ds, 1, Len(ds) - 1))
    ELSE ds

RECURSIVE LeadingZeros(_)
LeadingZeros(ds) ==
    IF ds = <<>> \/ Head(ds) # 0 THEN 0 ELSE 1 + LeadingZeros(Tail(ds))

\* repr(float): the shortest digits; exponent form below 0.0001.
FormatFloat(n, frac) ==
    LET ds == StripZeros(frac)
        zeros == LeadingZeros(ds)
        sig == SubSeq(ds, zeros + 1, Len(ds))
    IN  IF ds = <<>> THEN IntToStr(n) \o ".0"
        ELSE IF n = 0 /\ zeros >= 4
        THEN Digit(Head(sig))
             \o (IF Len(sig) > 1 THEN "." \o Digits(Tail(sig)) ELSE "")
             \o "e-" \o (IF zeros + 1 < 10 THEN "0" ELSE "") \o NatToStr(zeros + 1)
        ELSE IntToStr(n) \o "." \o Digits(ds)

\* str(v) and '{}'.format(v)
Format(v) ==
    CASE v.k = "none" -> "None"
      [] v.k = "int" -> IntToStr(v.i)
      [] v.k = "float" -> FormatFloat(v.i, v.f)
      [] v.k = "str" -> v.s

\* bool(v)
Truthy(v) ==
    CASE v.k = "none" -> FALSE
      [] v.k = "int" -> v.i # 0
      [] v.k = "float" -> v.i # 0 \/ StripZeros(v.f) # <<>>
      [] v.k = "str" -> v.s # ""

\* sep.join(lines)
RECURSIVE Join(_, _)
Join(lines, sep) ==
    IF lines = <<>> THEN ""
    ELSE IF Len(lines) = 1 THEN lines[1]
    ELSE lines[1] \o sep \o Join(Tail(lines), sep)

\* '\n{}\n'.format('\n'.join(lines))
ScriptText(lines) == "\n" \o Join(lines, "\n") \o "\n"

\* ------------------------------------------------------------------ nodes
\* The document's own children and html's children are kept as sequences of
\* node names ("doctype", "html"; "head", "body").
\* A child node of head or body: tag, its one attribute value (charset, src,
\* href), its text content, and its identity: the number the tag object
\* carries as its id (0 for raw html, which is no tag).
Node(tag, attr, text, id) == [tag |-> tag, attr |-> attr, text |-> text, id |-> id]

Meta(id, charset) == Node("meta", charset, "", id)
Title(id, text) == Node("title", "", text, id)
Script(id, src, text) == Node("script", src, text, id)
Link(id, href) == Node("link", href, "", id)
RawHtml(html) == Node("raw", "", html, 0)
AppElement(e) == Node("elem", "", "", e)

AppendChild(children, node) == Append(children, node)

\* The identity of the n-th tag made for the document with this serial
\* number: tag identities are unique in the process, application elements
\* have the identities 1..MaxElems.
NodeId(serial, n) == serial * 100 + n

\* The identity of the next tag made for the document.
NewId(doc) == NodeId(doc.serial, doc.created + 1)

\* node.textContent = text, for the child with this identity
SetTextContent(children, id, text) ==
    [i \in DOMAIN children |->
        IF children[i].id = id THEN [children[i] EXCEPT !.text = text]
        ELSE children[i]]

\* node.setAttribute(name, value), for the child with this identity
SetAttribute(children, id, value) ==
    [i \in DOMAIN children |->
        IF children[i].id = id THEN [children[i] EXCEPT !.attr = value]
        ELSE children[i]]

\* The child with this identity.
ChildById(children, id) ==
    children[CHOOSE i \in DOMAIN children : children[i].id = id]

NoDocument ==
    [state |-> "none", serial |-> 0, created |-> 0, doctype |-> "",
     childNodes |-> <<>>, html |-> <<>>, head |-> <<>>, body |-> <<>>,
     html_id |-> 0, head_id |-> 0, body_id |-> 0,
     charset_element |-> 0, title_element |-> 0, script |-> 0,
     autoreload_script |-> 0, autoreload |-> "None", reload_wait |-> PyNone,
     customElements |-> {}, added |-> 0]

\* ------------------------------------------------- title, characterSet, charset
\* Document.title (getter and setter)
title(doc) == ChildById(doc.head, doc.title_element).text

title_setter(doc, value) ==
    [doc EXCEPT !.head = SetTextContent(@, doc.title_element, value)]

\* Document.characterSet (getter and setter)
characterSet(doc) == ChildById(doc.head, doc.charset_element).attr

characterSet_setter(doc, value) ==
    [doc EXCEPT !.head = SetAttribute(@, doc.charset_element, value)]

\* Document.charset (getter and setter)
charset(doc) == characterSet(doc)

charset_setter(doc, value) == characterSet_setter(doc, value)

\* ------------------------------------------------------- Document.__init__
\* The skeleton is built in the order of the constructor's statements: each
\* Tag(parent=p) appends the new node to p.
\* Variant: the autoreload placeholder is created before the title element.
Document_placeholder_first(serial, doctype, title_, charset_, autoreload, reload_wait) ==
    LET doc1 == AppendChild(<<>>, "doctype")
        doc2 == AppendChild(doc1, "html")
        html1 == AppendChild(<<>>, "head")
        head1 == AppendChild(<<>>, Meta(NodeId(serial, 3), ""))
        head2 == AppendChild(head1, Script(NodeId(serial, 4), "", ""))
        head3 == AppendChild(head2, Title(NodeId(serial, 5), ""))
        html2 == AppendChild(html1, "body")
        body1 == AppendChild(<<>>, Script(NodeId(serial, 7), "", ""))
        self == [NoDocument EXCEPT
                    !.state = "live", !.serial = serial, !.created = 7,
                    !.doctype = doctype, !.childNodes = doc2, !.html = html2,
                    !.head = head3, !.body = body1,
                    !.html_id = NodeId(serial, 1), !.head_id = NodeId(serial, 2),
                    !.charset_element = NodeId(serial, 3),
                    !.title_element = NodeId(serial, 5),
                    !.body_id = NodeId(serial, 6), !.script = NodeId(serial, 7),
                    !.autoreload_script = NodeId(serial, 4),
                    !.autoreload = autoreload, !.reload_wait = reload_wait]
    IN  title_setter(characterSet_setter(self, charset_), title_)

Document(serial, doctype, title_, charset_, autoreload, reload_wait) ==
    LET doc1 == AppendChild(<<>>, "doctype")
        doc2 == AppendChild(doc1, "html")
        html1 == AppendChild(<<>>, "head")
        head1 == AppendChild(<<>>, Meta(NodeId(serial, 3), ""))
        head2 == AppendChild(head1, Title(NodeId(serial, 4), ""))
        html2 == AppendChild(html1, "body")
        body1 == AppendChild(<<>>, Script(NodeId(serial, 6), "", ""))
        head3 == AppendChild(head2, Script(NodeId(serial, 7), "", ""))
        self == [NoDocument EXCEPT
                    !.state = "live", !.serial = serial, !.created = 7,
                    !.doctype = doctype, !.childNodes = doc2, !.html = html2,
                    !.head = head3, !.body = body1,
                    !.html_id = NodeId(serial, 1), !.head_id = NodeId(serial, 2),
                    !.charset_element = NodeId(serial, 3),
                    !.title_element = NodeId(serial, 4),
                    !.body_id = NodeId(serial, 5), !.script = NodeId(serial, 6),
                    !.autoreload_script = NodeId(serial, 7),
                    !.autoreload = autoreload, !.reload_wait = reload_wait]
    IN  title_setter(characterSet_setter(self, charset_), title_)

\* ------------------------------------------------- Document._set_autoreload
\* Variant: the document's flag is or-ed with the process default, so an
\* explicit False does not override it.
EffectiveAutoreload_or(doc, cfg) ==
    doc.autoreload = "True" \/ cfg.autoreload \/ cfg.debug

EffectiveAutoreload(doc, cfg) ==
    IF doc.autoreload = "None" THEN (cfg.autoreload \/ cfg.debug)
    ELSE doc.autoreload = "True"

AutoreloadLines(doc) ==
    <<"var RIMO_AUTORELOAD = true">>
    \o (IF doc.reload_wait # PyNone
        THEN <<"var RIMO_RELOAD_WAIT = " \o Format(doc.reload_wait)>>
        ELSE <<>>)

AutoreloadText(doc, cfg) ==
    IF EffectiveAutoreload(doc, cfg) THEN ScriptText(AutoreloadLines(doc)) ELSE ""

\* Variant: the new content is added to the placeholder's old content.
_set_autoreload_keep(doc, cfg) ==
    [doc EXCEPT !.head = SetTextContent(doc.head, doc.autoreload_script,
                            ChildById(doc.head, doc.autoreload_script).text
                            \o AutoreloadText(doc, cfg))]

_set_autoreload(doc, cfg) ==
    [doc EXCEPT !.head = SetTextContent(doc.head, doc.autoreload_script,
                                        AutoreloadText(doc, cfg))]

\* ---------------------------------------------------------- serialization
\* The start of a tag's markup: its name and its identity attribute.
TagOpen(name, id) == "<" \o name \o " id=\"" \o NatToStr(id) \o "\""

\* child.html of the tag classes (outside document.py)
NodeHtml(n) ==
    CASE n.tag = "meta" -> TagOpen("meta", n.id) \o " charset=\"" \o n.attr \o "\">"
      [] n.tag = "title" -> TagOpen("title", n.id) \o ">" \o n.text \o "</title>"
      [] n.tag = "script" ->
            TagOpen("script", n.id)
            \o (IF n.attr = "" THEN "" ELSE " src=\"" \o n.attr \o "\"")
            \o ">" \o n.text \o "</script>"
      [] n.tag = "link" ->
            TagOpen("link", n.id) \o " rel=\"stylesheet\" href=\"" \o n.attr \o "\">"
      [] n.tag = "raw" -> n.text
      [] n.tag = "elem" -> TagOpen("div", n.id) \o "></div>"

RECURSIVE ChildrenHtml(_)
ChildrenHtml(children) ==
    IF children = <<>> THEN ""
    ELSE NodeHtml(Head(children)) \o ChildrenHtml(Tail(children))

RECURSIVE HtmlChildrenHtml(_, _)
HtmlChildrenHtml(doc, names) ==
    IF names = <<>> THEN ""
    ELSE (IF Head(names) = "head"
          THEN TagOpen("head", doc.head_id) \o ">"
               \o ChildrenHtml(doc.head) \o "</head>"
          ELSE TagOpen("body", doc.body_id) \o ">"
               \o ChildrenHtml(doc.body) \o "</body>")
         \o HtmlChildrenHtml(doc, Tail(names))

RECURSIVE DocumentChildrenHtml(_, _)
DocumentChildrenHtml(doc, names) ==
    IF names = <<>> THEN ""
    ELSE (IF Head(names) = "doctype"
          THEN "<!DOCTYPE " \o doc.doctype \o ">"
          ELSE TagOpen("html", doc.html_id) \o ">"
               \o HtmlChildrenHtml(doc, doc.html) \o "</html>")
         \o DocumentChildrenHtml(doc, Tail(names))

\* ''.join(child.html for child in self.childNodes)
DocumentHtml(doc) == DocumentChildrenHtml(doc, doc.childNodes)

\* ----------------------------------------------------------- Document.build
\* build() refreshes the autoreload placeholder, then joins the children's html.
build(doc, cfg) ==
    LET refreshed == _set_autoreload(doc, cfg)
    IN  [doc |-> refreshed, html |-> DocumentHtml(refreshed)]

\* -------------------------------------------------------- get_new_document
LogLevelLines(log_level) ==
    IF log_level.k = "str" THEN <<"var RIMO_LOG_LEVEL = '" \o Format(log_level) \o "'">>
    ELSE IF log_level.k = "int" THEN <<"var RIMO_LOG_LEVEL = " \o Format(log_level)>>
    ELSE <<>>

LogScriptLines(args, cfg) ==
    LET log_level == IF args.log_level = PyNone THEN cfg.logging ELSE args.log_level
        message_wait == IF args.message_wait = PyNone THEN cfg.message_wait
                        ELSE args.message_wait
    IN  <<"var RIMO_MESSAGE_WAIT = " \o Format(message_wait)>>
        \o LogLevelLines(log_level)
        \o (IF Truthy(args.log_prefix)
            THEN <<"var RIMO_LOG_PREFIX = '" \o Format(args.log_prefix) \o "'">>
            ELSE <<>>)
        \o (IF args.log_console THEN <<"var RIMO_LOG_CONSOLE = true">> ELSE <<>>)

WsUrlText(ws_url) == "\nvar RIMO_WS_URL = '" \o Format(ws_url) \o "'\n"

RimoJs == "_static/js/rimo/rimo.js"

\* Script(parent=document.head): a new script tag with this text, appended
\* to head.
HeadScript(doc, text) ==
    [doc EXCEPT !.head = AppendChild(@, Script(NewId(doc), "", text)),
                !.created = @ + 1]

add_jsfile_head(doc, src) ==
    [doc EXCEPT !.head = AppendChild(@, Script(NewId(doc), src, "")),
                !.created = @ + 1]

\* Variant: the runtime-library reference is added before the scripts.
get_new_document_rimo_first(serial, args, cfg) ==
    LET document == Document(serial, args.doctype, args.title, args.charset,
                             args.autoreload, args.reload_wait)
        doc0 == IF args.include_rimo THEN add_jsfile_head(document, RimoJs)
                ELSE document
        log_script == LogScriptLines(args, cfg)
        doc1 == HeadScript(doc0, ScriptText(log_script))
    IN  IF Truthy(args.ws_url) THEN HeadScript(doc1, WsUrlText(args.ws_url))
        ELSE doc1

get_new_document(serial, args, cfg) ==
    LET document == Document(serial, args.doctype, args.title, args.charset,
                             args.autoreload, args.reload_wait)
        log_script == LogScriptLines(args, cfg)
        doc1 == IF log_script # <<>>
                THEN HeadScript(document, ScriptText(log_script))
                ELSE document
        doc2 == IF Truthy(args.ws_url) THEN HeadScript(doc1, WsUrlText(args.ws_url))
                ELSE doc1
    IN  IF args.include_rimo THEN add_jsfile_head(doc2, RimoJs) ELSE doc2

\* The defaults of the signatures of Document.__init__ and get_new_document.
DefaultArgs ==
    [include_rimo |-> TRUE, autoreload |-> "None", reload_wait |-> PyNone,
     log_level |-> PyNone, log_prefix |-> PyNone, log_console |-> FALSE,
     ws_url |-> PyNone, message_wait |-> PyNone,
     doctype |-> "html", title |-> "W-DOM", charset |-> "utf-8"]

\* ------------------------------------------------------------------ themes
\* A theme object: for each of the four attributes, whether the object has it
\* and the sequence it holds.
Attr(has, items) == [has |-> has, items |-> items]
Absent == Attr(FALSE, <<>>)

Theme(css, js, headers, classes) ==
    [css_files |-> css, js_files |-> js, headers |-> headers,
     extended_classes |-> classes]

NoTheme == Theme(Absent, Absent, Absent, Absent)

\* getattr(theme, name, [])
GetAttr(attr) == IF attr.has THEN attr.items ELSE <<>>

add_jsfile(doc, src) ==
    [doc EXCEPT !.body = AppendChild(@, Script(NewId(doc), src, "")),
                !.created = @ + 1]

\* Variant: the stylesheet link is put in front of head's children.
add_cssfile_first(doc, src) ==
    [doc EXCEPT !.head = <<Link(NewId(doc), src)>> \o @, !.created = @ + 1]

add_cssfile(doc, src) ==
    [doc EXCEPT !.head = AppendChild(@, Link(NewId(doc), src)),
                !.created = @ + 1]

add_header(doc, header) == [doc EXCEPT !.head = AppendChild(@, RawHtml(header))]

\* self.defaultView.customElements.define(cls)
define(doc, cls) == [doc EXCEPT !.customElements = @ \cup {cls}]

RECURSIVE add_cssfiles(_, _)
add_cssfiles(doc, items) ==
    IF items = <<>> THEN doc
    ELSE add_cssfiles(add_cssfile(doc, Head(items)), Tail(items))

RECURSIVE add_jsfiles(_, _)
add_jsfiles(doc, items) ==
    IF items = <<>> THEN doc
    ELSE add_jsfiles(add_jsfile(doc, Head(items)), Tail(items))

RECURSIVE add_headers(_, _)
add_headers(doc, items) ==
    IF items = <<>> THEN doc
    ELSE add_headers(add_header(doc, Head(items)), Tail(items))

RECURSIVE define_all(_, _)
define_all(doc, items) ==
    IF items = <<>> THEN doc
    ELSE define_all(define(doc, Head(items)), Tail(items))

\* Document.register_theme: the document after the call and whether the call
\* returned normally (FALSE: ValueError).
register_theme(doc, theme) ==
    IF ~theme.css_files.has THEN [doc |-> doc, ok |-> FALSE]
    ELSE LET doc1 == add_cssfiles(doc, GetAttr(theme.css_files))
             doc2 == add_jsfiles(doc1, GetAttr(theme.js_files))
             doc3 == add_headers(doc2, GetAttr(theme.headers))
             doc4 == define_all(doc3, GetAttr(theme.extended_classes))
         IN  [doc |-> doc4, ok |-> TRUE]

\* ------------------------------------------------------------ input sets
Themes ==
    {Theme(css, js, headers, classes) :
        css \in {Absent, Attr(TRUE, <<>>), Attr(TRUE, <<"a.css", "b.css">>)},
        js \in {Absent, Attr(TRUE, <<"a.js", "b.js">>)},
        headers \in {Absent, Attr(TRUE, <<"<meta name=\"x\">">>)},
        classes \in {Absent, Attr(TRUE, <<"MyTag">>)}}

\* The options' defaults.
DefaultConfig ==
    [autoreload |-> FALSE, debug |-> FALSE, logging |-> PyStr("info"),
     message_wait |-> PyFloat(0, <<0, 0, 5>>)]

Configs ==
    [autoreload : BOOLEAN, debug : BOOLEAN,
     logging : {PyStr("info"), PyStr("debug")},
     message_wait : {PyFloat(0, <<0, 0, 5>>)}]

Doctypes == {"html", "svg"}
Titles == {"W-DOM", "Hello"}
Charsets == {"utf-8", "latin-1"}
Autoreloads == {"None", "True", "False"}
ReloadWaits == {PyNone, PyInt(0), PyFloat(2, <<5, 0>>)}

FactoryArgs ==
    {[DefaultArgs EXCEPT !.include_rimo = rimo, !.log_level = level,
                         !.log_prefix = prefix, !.log_console = console,
                         !.ws_url = url, !.message_wait = wait] :
        rimo \in BOOLEAN,
        level \in {PyNone, PyStr("debug"), PyInt(10), PyFloat(1, <<5>>)},
        prefix \in {PyNone, PyStr(""), PyStr("app")},
        console \in BOOLEAN,
        url \in {PyNone, PyStr(""), PyStr("ws://host/rimo_ws")},
        wait \in {PyNone, PyInt(0), PyFloat(0, <<0, 0, 0, 0, 1>>)}}

\* The files and the header given to add_jsfile, add_jsfile_head, add_cssfile
\* and add_header.
JsFiles == {"app.js"}
CssFiles == {"app.css"}
Headers == {"<meta name=\"y\">"}

Keys == {"1", "2"}
\* The ids given to the lookups: str or int.
Ids == {PyStr("1"), PyStr("2"), PyInt(1), PyInt(2), PyStr("x")}

\* ------------------------------------------------------------------ state
\* The record of the last call: its name, the document, element and key (or
\* string value) it was given, its arguments, the string it returned,
\* whether it returned normally, and for build how many times in a row it
\* ran on that document.
NoOp ==
    [name |-> "", d |-> 0, e |-> 0, key |-> "", html |-> "", ok |-> TRUE,
     args |-> DefaultArgs, theme |-> NoTheme, n |-> 0]

DeadDocument == [NoDocument EXCEPT !.state = "dead"]

Live == {d \in Docs : documents[d].state = "live"}
Fresh == {d \in Docs : documents[d].state = "none"}

\* Document ids are handed out in increasing order.
NextDoc == CHOOSE d \in Fresh : \A x \in Fresh : d <= x

\* The module is loaded: rootDocument = get_new_document() (line 348), with
\* its tempdir made and its finalizer registered.
Init ==
    /\ config \in Configs
    /\ documents = [d \in Docs |->
            IF d = RootId THEN get_new_document(RootId, DefaultArgs, config)
            ELSE NoDocument]
    /\ rootDocument = RootId
    /\ fs = {RootId}
    /\ finalizers = {RootId}
    /\ refs = {}
    /\ rmtree_calls = [d \in Docs |-> 0]
    /\ raised = FALSE
    /\ cleaning = [d \in Docs |-> ""]
    /\ elements = [e \in Elems |-> "new"]
    /\ elements_with_id = [k \in Keys |-> 0]
    /\ elements_with_rimo_id = [k \in Keys |-> 0]
    /\ op = [NoOp EXCEPT !.name = "import", !.d = RootId]

\* Document.__init__ beyond the tree: tempfile.mkdtemp() and weakref.finalize;
\* the caller holds the new document.
Construct(d, doc) ==
    /\ documents' = [documents EXCEPT ![d] = doc]
    /\ fs' = fs \cup {d}
    /\ finalizers' = finalizers \cup {d}
    /\ refs' = refs \cup {d}
    /\ UNCHANGED <<rmtree_calls, raised, cleaning>>

\* Document(doctype, title, charset, autoreload=..., reload_wait=...)
NewDocument(doctype, title_, charset_, autoreload, reload_wait) ==
    /\ Fresh # {}
    /\ Construct(NextDoc, Document(NextDoc, doctype, title_, charset_,
                                   autoreload, reload_wait))
    /\ op' = [NoOp EXCEPT !.name = "Document", !.d = NextDoc,
                          !.args = [DefaultArgs EXCEPT
                                      !.doctype = doctype, !.title = title_,
                                      !.charset = charset_,
                                      !.autoreload = autoreload,
                                      !.reload_wait = reload_wait]]
    /\ UNCHANGED <<rootDocument, config, registryVars>>

\* get_new_document(**args)
GetNewDocument(args) ==
    /\ Fresh # {}
    /\ Construct(NextDoc, get_new_document(NextDoc, args, config))
    /\ op' = [NoOp EXCEPT !.name = "get_new_document", !.d = NextDoc, !.args = args]
    /\ UNCHANGED <<rootDocument, config, registryVars>>

\* document.build()
Build(d) ==
    /\ d \in Live
    /\ LET r == build(documents[d], config)
       IN  /\ documents' = [documents EXCEPT ![d] = r.doc]
           /\ op' = [NoOp EXCEPT !.name = "build", !.d = d, !.html = r.html,
                                 !.n = IF op.name = "build" /\ op.d = d /\ op.n >= 1
                                       THEN 2 ELSE 1]
    /\ UNCHANGED <<rootDocument, config, refs, tempdirVars, registryVars>>

\* The process-wide options change (wdom.options.config is a mutable namespace).
SetConfig(c) ==
    /\ c # config
    /\ config' = c
    /\ op' = [NoOp EXCEPT !.name = "config"]
    /\ UNCHANGED <<documents, rootDocument, refs, tempdirVars, registryVars>>

\* document.title = value
SetTitle(d, value) ==
    /\ d \in Live
    /\ documents' = [documents EXCEPT ![d] = title_setter(@, value)]
    /\ op' = [NoOp EXCEPT !.name = "title", !.d = d, !.key = value]
    /\ UNCHANGED <<rootDocument, config, refs, tempdirVars, registryVars>>

\* document.characterSet = value
SetCharacterSet(d, value) ==
    /\ d \in Live
    /\ documents' = [documents EXCEPT ![d] = characterSet_setter(@, value)]
    /\ op' = [NoOp EXCEPT !.name = "characterSet", !.d = d, !.key = value]
    /\ UNCHANGED <<rootDocument, config, refs, tempdirVars, registryVars>>

\* document.charset = value
SetCharset(d, value) ==
    /\ d \in Live
    /\ documents' = [documents EXCEPT ![d] = charset_setter(@, value)]
    /\ op' = [NoOp EXCEPT !.name = "charset", !.d = d, !.key = value]
    /\ UNCHANGED <<rootDocument, config, refs, tempdirVars, registryVars>>

\* A call that adds a resource to the document: the document after it, with
\* the call counted (the count only caps the size of the tree).
Added(doc) == [doc EXCEPT !.added = @ + 1]

\* document.add_jsfile(src)
AddJsfile(d, src) ==
    /\ d \in Live
    /\ documents[d].added < MaxThemes
    /\ documents' = [documents EXCEPT ![d] = Added(add_jsfile(@, src))]
    /\ op' = [NoOp EXCEPT !.name = "add_jsfile", !.d = d, !.key = src]
    /\ UNCHANGED <<rootDocument, config, refs, tempdirVars, registryVars>>

\* document.add_jsfile_head(src)
AddJsfileHead(d, src) ==
    /\ d \in Live
    /\ documents[d].added < MaxThemes
    /\ documents' = [documents EXCEPT ![d] = Added(add_jsfile_head(@, src))]
    /\ op' = [NoOp EXCEPT !.name = "add_jsfile_head", !.d = d, !.key = src]
    /\ UNCHANGED <<rootDocument, config, refs, tempdirVars, registryVars>>

\* document.add_cssfile(src)
AddCssfile(d, src) ==
    /\ d \in Live
    /\ documents[d].added < MaxThemes
    /\ documents' = [documents EXCEPT ![d] = Added(add_cssfile(@, src))]
    /\ op' = [NoOp EXCEPT !.name = "add_cssfile", !.d = d, !.key = src]
    /\ UNCHANGED <<rootDocument, config, refs, tempdirVars, registryVars>>

\* document.add_header(header)
AddHeader(d, header) ==
    /\ d \in Live
    /\ documents[d].added < MaxThemes
    /\ documents' = [documents EXCEPT ![d] = Added(add_header(@, header))]
    /\ op' = [NoOp EXCEPT !.name = "add_header", !.d = d, !.key = header]
    /\ UNCHANGED <<rootDocument, config, refs, tempdirVars, registryVars>>

\* document.register_theme(theme): a call that raises changes nothing and is
\* always possible; a call that returns is counted.
RegisterTheme(d, theme) ==
    /\ d \in Live
    /\ LET r == register_theme(documents[d], theme)
       IN  /\ r.ok => documents[d].added < MaxThemes
           /\ documents' = [documents EXCEPT
                                ![d] = IF r.ok THEN Added(r.doc) ELSE r.doc]
           /\ op' = [NoOp EXCEPT !.name = "register_theme", !.d = d,
                                 !.theme = theme, !.ok = r.ok]
    /\ UNCHANGED <<rootDocument, config, refs, tempdirVars, registryVars>>

\* ------------------------------------------------------- identity registry
\* dict.get(key): 0 stands for None.
Get(dict, key) == IF key \in DOMAIN dict THEN dict[key] ELSE 0

getElementById(id) == Get(elements_with_id, Format(id))

\* Variant: the rimo_id lookup reads the public-id registry.
getElementByRimoId_shared(id) == Get(elements_with_id, Format(id))

getElementByRimoId(id) == Get(elements_with_rimo_id, Format(id))

Contains(children, e) == \E i \in 1..Len(children) : children[i] = AppElement(e)

\* elm.ownerDocument: the document whose tree holds the element, 0 for None.
ownerDocument(e) ==
    IF \E d \in Live : Contains(documents[d].body, e)
    THEN CHOOSE d \in Live : Contains(documents[d].body, e)
    ELSE 0

\* Variant: the owner is not compared.
Document_getElementById_any(d, id) == getElementById(id)

Document_getElementById(d, id) ==
    LET elm == getElementById(id)
    IN  IF elm # 0 /\ ownerDocument(elm) = d THEN elm ELSE 0

Document_getElementByRimoId(d, id) ==
    LET elm == getElementByRimoId(id)
    IN  IF elm # 0 /\ ownerDocument(elm) = d THEN elm ELSE 0

\* Document.createElement(tag): a new element, held by the caller.
CreateElement(e) ==
    /\ elements[e] = "new"
    /\ elements' = [elements EXCEPT ![e] = "alive"]
    /\ op' = [NoOp EXCEPT !.name = "createElement", !.e = e]
    /\ UNCHANGED <<documents, rootDocument, config, refs, tempdirVars,
                   elements_with_id, elements_with_rimo_id>>

\* register("id", key, e): Element._elements_with_id[key] = e
RegisterId(e, key) ==
    /\ elements[e] = "alive"
    /\ elements_with_id' = [elements_with_id EXCEPT ![key] = e]
    /\ op' = [NoOp EXCEPT !.name = "register_id", !.e = e, !.key = key]
    /\ UNCHANGED <<documents, rootDocument, config, refs, tempdirVars,
                   elements, elements_with_rimo_id>>

\* register("rimo_id", key, e): WdomElement._elements_with_rimo_id[key] = e
RegisterRimoId(e, key) ==
    /\ elements[e] = "alive"
    /\ elements_with_rimo_id' = [elements_with_rimo_id EXCEPT ![key] = e]
    /\ op' = [NoOp EXCEPT !.name = "register_rimo_id", !.e = e, !.key = key]
    /\ UNCHANGED <<documents, rootDocument, config, refs, tempdirVars,
                   elements, elements_with_id>>

\* The last strong reference to a detached element goes away: its weak
\* bindings lapse in both registries.
Lapse(dict, e) == [k \in DOMAIN dict |-> IF dict[k] = e THEN 0 ELSE dict[k]]

ElementDies(e) ==
    /\ elements[e] = "alive"
    /\ ownerDocument(e) = 0
    /\ elements' = [elements EXCEPT ![e] = "dead"]
    /\ elements_with_id' = Lapse(elements_with_id, e)
    /\ elements_with_rimo_id' = Lapse(elements_with_rimo_id, e)
    /\ op' = [NoOp EXCEPT !.name = "del", !.e = e]
    /\ UNCHANGED <<documents, rootDocument, config, refs, tempdirVars>>

\* ------------------------------------------------------ rootDocument slot
get_document == rootDocument

\* A document is held by the slot, by the application, or by the caller of
\* its finalizer while that call runs.
Reachable(d) == d = rootDocument \/ d \in refs \/ cleaning[d] = "call"

\* doc = get_document(): the application holds the document in the slot.
GetDocument ==
    /\ refs' = refs \cup {get_document}
    /\ op' = [NoOp EXCEPT !.name = "get_document", !.d = get_document]
    /\ UNCHANGED <<documents, rootDocument, config, tempdirVars, registryVars>>

\* Variant: the document that leaves the slot is cleaned up.
set_document_dispose(new_document) ==
    /\ new_document \in Live /\ Reachable(new_document)
    /\ rootDocument' = new_document
    /\ fs' = fs \ {rootDocument}
    /\ finalizers' = finalizers \ {rootDocument}
    /\ op' = [NoOp EXCEPT !.name = "set_document", !.d = new_document]
    /\ UNCHANGED <<documents, config, refs, rmtree_calls, raised, cleaning,
                   registryVars>>

set_document(new_document) ==
    /\ new_document \in Live /\ Reachable(new_document)
    /\ rootDocument' = new_document
    /\ op' = [NoOp EXCEPT !.name = "set_document", !.d = new_document]
    /\ UNCHANGED <<documents, config, refs, tempdirVars, registryVars>>

\* removeChild: the children without the element
Without(children, e) == SelectSeq(children, LAMBDA n : n # AppElement(e))

\* body.prepend(app): the node leaves its old parent and becomes the first
\* child of body.
prepend(docs, d, e) ==
    LET removed == [x \in Docs |-> [docs[x] EXCEPT !.body = Without(@, e)]]
    IN  [removed EXCEPT ![d].body = <<AppElement(e)>> \o @]

set_app(app) ==
    /\ elements[app] = "alive"
    /\ documents' = prepend(documents, get_document, app)
    /\ op' = [NoOp EXCEPT !.name = "set_app", !.e = app, !.d = get_document]
    /\ UNCHANGED <<rootDocument, config, refs, tempdirVars, registryVars>>

\* ------------------------------------------------------ tempdir lifecycle
\* os.path.isdir(path)
isdir(d) == d \in fs

\* _cleanup up to its test (line 41): when the directory is there the
\* callback goes on to rmtree, which is a later step; `how` tells who runs it.
_cleanup(d, how) ==
    IF isdir(d) THEN cleaning' = [cleaning EXCEPT ![d] = how]
    ELSE UNCHANGED cleaning

\* weakref.finalize(self, partial(_cleanup, _tempdir)) when called or when
\* its document is collected: the callback runs if the finalizer is alive,
\* and the finalizer is dead from then on.
finalize(d, how) ==
    /\ IF d \in finalizers
       THEN finalizers' = finalizers \ {d} /\ _cleanup(d, how)
       ELSE UNCHANGED <<finalizers, cleaning>>
    /\ UNCHANGED <<fs, rmtree_calls, raised>>

\* document._finalizer()
CallFinalizer(d) ==
    /\ d \in Live /\ Reachable(d)
    /\ finalize(d, "call")
    /\ op' = [NoOp EXCEPT !.name = "finalizer", !.d = d]
    /\ UNCHANGED <<documents, rootDocument, config, refs, registryVars>>

\* The application drops its reference to a document.
DropReference(d) ==
    /\ d \in refs
    /\ refs' = refs \ {d}
    /\ op' = [NoOp EXCEPT !.name = "drop", !.d = d]
    /\ UNCHANGED <<documents, rootDocument, config, tempdirVars, registryVars>>

\* The collector reclaims an unreachable document: its finalizer runs.
Collect(d) ==
    /\ d \in Live /\ ~Reachable(d)
    /\ documents' = [documents EXCEPT ![d] = DeadDocument]
    /\ finalize(d, "collect")
    /\ op' = [NoOp EXCEPT !.name = "collect", !.d = d]
    /\ UNCHANGED <<rootDocument, config, refs, registryVars>>

\* shutil.rmtree(path) (line 42), reached after the test found the
\* directory: it removes the directory and raises FileNotFoundError when the
\* directory is gone by now. The error reaches the caller of an explicit
\* finalizer call; under collection it is reported, not propagated.
rmtree(d) ==
    /\ cleaning[d] # ""
    /\ rmtree_calls' = [rmtree_calls EXCEPT ![d] = @ + 1]
    /\ fs' = fs \ {d}
    /\ raised' = (raised \/ (d \notin fs /\ cleaning[d] = "call"))
    /\ cleaning' = [cleaning EXCEPT ![d] = ""]
    /\ op' = [NoOp EXCEPT !.name = "rmtree", !.d = d, !.ok = (d \in fs)]
    /\ UNCHANGED <<documents, rootDocument, config, refs, finalizers, registryVars>>

\* Something else removes the directory.
RemoveTempdir(d) ==
    /\ d \in fs
    /\ fs' = fs \ {d}
    /\ op' = [NoOp EXCEPT !.name = "rmdir", !.d = d]
    /\ UNCHANGED <<documents, rootDocument, config, refs, finalizers, rmtree_calls,
                   raised, cleaning, registryVars>>

\* ---------------------------------------------------------- specifications
\* One document besides the root document, made either way, then built under
\* changing process options.
OnlyRoot == Fresh = Docs \ {RootId}

Next ==
    \/ \E dt \in Doctypes, t \in Titles, cs \in Charsets,
          ar \in Autoreloads, rw \in ReloadWaits :
          OnlyRoot /\ NewDocument(dt, t, cs, ar, rw)
    \/ \E args \in FactoryArgs : OnlyRoot /\ GetNewDocument(args)
    \/ \E d \in Docs : Build(d)
    \/ \E c \in Configs : SetConfig(c)

Spec == Init /\ [][Next]_vars

InitDefault == Init /\ config = DefaultConfig

\* The root document is changed through its setters and its add_* methods
\* and built in between, under changing process options.
NextPage ==
    \/ \E t \in Titles : SetTitle(rootDocument, t)
    \/ \E cs \in Charsets : SetCharacterSet(rootDocument, cs)
    \/ \E cs \in Charsets : SetCharset(rootDocument, cs)
    \/ \E src \in JsFiles : AddJsfile(rootDocument, src)
    \/ \E src \in JsFiles : AddJsfileHead(rootDocument, src)
    \/ \E src \in CssFiles : AddCssfile(rootDocument, src)
    \/ \E header \in Headers : AddHeader(rootDocument, header)
    \/ Build(rootDocument)
    \/ \E c \in Configs : SetConfig(c)

SpecPage == InitDefault /\ [][NextPage]_vars

\* Themes are registered on the root document, which is built in between.
NextTheme ==
    \/ \E theme \in Themes : RegisterTheme(rootDocument, theme)
    \/ Build(rootDocument)

SpecTheme == InitDefault /\ [][NextTheme]_vars

\* A second document and elements are made, elements are mounted in the
\* current root document and registered under ids, detached elements die.
NextRegistry ==
    \/ OnlyRoot /\ GetNewDocument(DefaultArgs)
    \/ \E d \in Docs : set_document(d)
    \/ \E e \in Elems : CreateElement(e)
    \/ \E e \in Elems : set_app(e)
    \/ \E e \in Elems, key \in Keys : RegisterId(e, key)
    \/ \E e \in Elems, key \in Keys : RegisterRimoId(e, key)
    \/ \E e \in Elems : ElementDies(e)

SpecRegistry == InitDefault /\ [][NextRegistry]_vars

\* Documents are made, taken from and put in the slot, dropped and
\* collected; finalizers are called by hand; directories vanish.
NextLifecycle ==
    \/ GetNewDocument(DefaultArgs)
    \/ GetDocument
    \/ \E d \in Docs : set_document(d)
    \/ \E d \in Docs : CallFinalizer(d)
    \/ \E d \in Docs : DropReference(d)
    \/ \E d \in Docs : Collect(d)
    \/ \E d \in Docs : rmtree(d)
    \/ \E d \in Docs : RemoveTempdir(d)

\* An unreachable document is collected in the end (by the collector, or
\* when the interpreter exits), and a callback that has started goes on.
SpecLifecycle ==
    /\ InitDefault /\ [][NextLifecycle]_vars
    /\ \A d \in Docs : WF_vars(Collect(d)) /\ WF_vars(rmtree(d))

\* Documents are made, taken from and put in the slot, dropped and
\* collected, and applications are mounted in the document in the slot.
NextSlot ==
    \/ GetNewDocument(DefaultArgs)
    \/ GetDocument
    \/ \E d \in Docs : set_document(d)
    \/ \E d \in Docs : DropReference(d)
    \/ \E d \in Docs : Collect(d)
    \/ \E d \in Docs : rmtree(d)
    \/ \E e \in Elems : CreateElement(e)
    \/ \E e \in Elems : set_app(e)

SpecSlot == InitDefault /\ [][NextSlot]_vars

\* ================================================================ claims
\* The children of head after the first n.
Rest(children, n) == SubSeq(children, n + 1, Len(children))

\* The children with their identities left out.
AnyId(children) == [i \in DOMAIN children |-> [children[i] EXCEPT !.id = 0]]

\* The lines of `lines` that `mask` selects, in order.
RECURSIVE Select(_, _)
Select(lines, mask) ==
    IF lines = <<>> THEN <<>>
    ELSE (IF Head(mask) THEN <<Head(lines)>> ELSE <<>>)
         \o Select(Tail(lines), Tail(mask))

\* ---- C1
\* C1: when the registry binds an id (public id or rimo_id) to an element
\* owned by document d1, every other document's lookup of that id returns
\* None, while the module-level lookup and d1's lookup return the element.
C1_OwnerFiltered ==
    \A d1 \in Live, d2 \in Live, id \in Ids :
        d1 # d2 =>
            /\ (getElementById(id) # 0 /\ ownerDocument(getElementById(id)) = d1) =>
                    /\ Document_getElementById(d2, id) = 0
                    /\ Document_getElementById(d1, id) = getElementById(id)
                    /\ getElementById(id) = elements_with_id[Format(id)]
            /\ (getElementByRimoId(id) # 0
                    /\ ownerDocument(getElementByRimoId(id)) = d1) =>
                    /\ Document_getElementByRimoId(d2, id) = 0
                    /\ Document_getElementByRimoId(d1, id) = getElementByRimoId(id)
                    /\ getElementByRimoId(id) = elements_with_rimo_id[Format(id)]

\* Two documents each own an element registered under an id, one of them
\* looked up by an int.
C1_Witness ==
    \E d1 \in Live, d2 \in Live :
        /\ d1 # d2
        /\ getElementById(PyInt(1)) # 0
        /\ ownerDocument(getElementById(PyInt(1))) = d1
        /\ getElementByRimoId(PyStr("2")) # 0
        /\ ownerDocument(getElementByRimoId(PyStr("2"))) = d2
        /\ Document_getElementById(d2, PyInt(1)) = 0
        /\ Document_getElementById(d1, PyInt(1)) # 0

\* ---- C2
\* C2: after a registration under (namespace, key) the lookup of the key in
\* that namespace returns the registered element; it keeps returning it as
\* long as the element is alive and nothing else is registered under that
\* key in that namespace; a registration in one namespace changes no lookup
\* in the other.
C2_LastWriterWins ==
    /\ [](/\ op.name = "register_id" => getElementById(PyStr(op.key)) = op.e
          /\ op.name = "register_rimo_id" => getElementByRimoId(PyStr(op.key)) = op.e)
    /\ [][\A id \in Ids :
            /\ (/\ getElementById(id) # 0
                /\ elements'[getElementById(id)] = "alive"
                /\ ~(op'.name = "register_id" /\ op'.key = Format(id)))
                    => getElementById(id)' = getElementById(id)
            /\ (/\ getElementByRimoId(id) # 0
                /\ elements'[getElementByRimoId(id)] = "alive"
                /\ ~(op'.name = "register_rimo_id" /\ op'.key = Format(id)))
                    => getElementByRimoId(id)' = getElementByRimoId(id)
            /\ op'.name = "register_id" =>
                    getElementByRimoId(id)' = getElementByRimoId(id)
            /\ op'.name = "register_rimo_id" =>
                    getElementById(id)' = getElementById(id)]_vars

\* Key "1" was just registered as a public id for one element while the same
\* string is the rimo_id of another element, owned by another document.
C2_Witness ==
    /\ op.name = "register_id" /\ op.key = "1"
    /\ getElementById(PyInt(1)) = op.e
    /\ getElementByRimoId(PyInt(1)) # 0
    /\ getElementByRimoId(PyInt(1)) # op.e
    /\ ownerDocument(op.e) # 0
    /\ ownerDocument(getElementByRimoId(PyInt(1))) # 0
    /\ ownerDocument(getElementByRimoId(PyInt(1))) # ownerDocument(op.e)

\* ---- C3
\* C3: for every document, rmtree runs on its tempdir at most once and no
\* finalizer call raises, whatever the order of explicit finalizer calls,
\* collection and outside removal of the directory; and once a document is
\* unreachable its tempdir is gone in the end.
C3_ReleasedOnce ==
    /\ [](\A d \in Docs : rmtree_calls[d] <= 1 /\ ~raised)
    /\ \A d \in Docs :
            (documents[d].state = "live" /\ ~Reachable(d)) ~> (d \notin fs)

\* ---- C10
\* C10: the slot always holds one live document: the default document until
\* set_document is called, then the document of the latest set_document,
\* and that is what get_document returns; set_document changes the slot only
\* (no tempdir is removed, no finalizer runs, no tree changes); set_app makes
\* the application the first child of the body of the document in the slot,
\* in front of body's other children.
C10_RootSlot ==
    /\ [](/\ get_document \in Live
          /\ op.name = "import" => get_document = RootId
          /\ op.name = "set_document" => get_document = op.d
          /\ op.name = "get_document" => op.d = rootDocument
          /\ op.name = "set_app" =>
                Head(documents[get_document].body) = AppElement(op.e))
    /\ [][/\ op'.name # "set_document" => get_document' = get_document
          /\ op'.name = "set_document" =>
                /\ fs' = fs /\ finalizers' = finalizers
                /\ rmtree_calls' = rmtree_calls /\ cleaning' = cleaning
                /\ documents' = documents
          /\ op'.name = "set_app" =>
                documents'[get_document].body =
                    <<AppElement(op'.e)>>
                    \o Without(documents[get_document].body, op'.e)]_vars

\* A second document is in the slot with two applications mounted in front
\* of its placeholder script, and the default document, which the
\* application got from the slot before, still has its tempdir and its
\* finalizer.
C10_Witness ==
    /\ op.name = "set_app"
    /\ get_document # RootId
    /\ Len(documents[get_document].body) = 3
    /\ documents[get_document].body[3].id = documents[get_document].script
    /\ documents[get_document].body[3].text = ""
    /\ documents[get_document].body[1] = AppElement(op.e)
    /\ RootId \in refs /\ RootId \in Live
    /\ RootId \in fs /\ RootId \in finalizers

\* ---- C4
\* C4: a build() that follows a build() of the same document, with nothing
\* done in between, returns the same string and leaves the document as the
\* first build left it; no build() changes the number of children of head or
\* body.
C4_BuildTwice ==
    [][op'.name = "build" =>
        LET d == op'.d
        IN  /\ Len(documents'[d].head) = Len(documents[d].head)
            /\ Len(documents'[d].body) = Len(documents[d].body)
            /\ (op.name = "build" /\ op.d = d) =>
                    /\ op'.html = op.html
                    /\ documents'[d] = documents[d]]_vars

\* A second build in a row has happened, on a document whose title was
\* changed, which got a resource, and whose placeholder is filled.
C4_Witness ==
    /\ op.name = "build" /\ op.n = 2
    /\ title(documents[op.d]) = "Hello"
    /\ documents[op.d].added > 0
    /\ ChildById(documents[op.d].head, documents[op.d].autoreload_script).text # ""

\* ---- C5
\* C5: right after Document(doctype, title, charset) the document's children
\* are [doctype, html], html's are [head, body], head's are [meta with the
\* charset, title with the title text, empty placeholder script] and body's
\* is one empty placeholder script.
C5_Skeleton ==
    op.name = "Document" =>
        LET doc == documents[op.d]
        IN  /\ doc.childNodes = <<"doctype", "html">>
            /\ doc.doctype = op.args.doctype
            /\ doc.html = <<"head", "body">>
            /\ AnyId(doc.head) = <<Meta(0, op.args.charset), Title(0, op.args.title),
                                   Script(0, "", "")>>
            /\ doc.head[1].id = doc.charset_element
            /\ doc.head[2].id = doc.title_element
            /\ doc.head[3].id = doc.autoreload_script
            /\ AnyId(doc.body) = <<Script(0, "", "")>>
            /\ doc.body[1].id = doc.script

C5_Witness ==
    /\ op.name = "Document"
    /\ op.args.title = "Hello" /\ op.args.charset = "latin-1" /\ op.args.doctype = "svg"
    /\ title(documents[op.d]) = "Hello"
    /\ characterSet(documents[op.d]) = "latin-1"

\* ---- C6
C6_Candidates(level, prefix, wait) ==
    << "var RIMO_MESSAGE_WAIT = " \o Format(wait),
       IF level.k = "str" THEN "var RIMO_LOG_LEVEL = '" \o level.s \o "'"
                          ELSE "var RIMO_LOG_LEVEL = " \o Format(level),
       "var RIMO_LOG_PREFIX = '" \o Format(prefix) \o "'",
       "var RIMO_LOG_CONSOLE = true" >>

C6_Tail(args) ==
    (IF Truthy(args.ws_url)
     THEN <<Script(0, "", "\nvar RIMO_WS_URL = '" \o args.ws_url.s \o "'\n")>>
     ELSE <<>>)
    \o (IF args.include_rimo THEN <<Script(0, "_static/js/rimo/rimo.js", "")>>
        ELSE <<>>)

C6_Wait(args) == IF args.message_wait = PyNone THEN config.message_wait
                 ELSE args.message_wait

\* C6 as stated: after the title come the placeholder, the logging script
\* whose lines are, in this order, message-wait and those of log level, log
\* prefix and log-console, an optional line being there only if its value was
\* passed, then the transport-URL script iff a URL was passed, then the
\* runtime-library reference iff requested.
C6_Original ==
    op.name = "get_new_document" =>
        LET args == op.args
            head == documents[op.d].head
            lines == C6_Candidates(args.log_level, args.log_prefix, C6_Wait(args))
        IN  \E level \in BOOLEAN, prefix \in BOOLEAN, console \in BOOLEAN :
                /\ level => args.log_level # PyNone
                /\ prefix => args.log_prefix # PyNone
                /\ console => args.log_console
                /\ AnyId(Rest(head, 2)) =
                        <<Script(0, "", "")>>
                        \o <<Script(0, "", "\n"
                              \o Join(Select(lines, <<TRUE, level, prefix, console>>), "\n")
                              \o "\n")>>
                        \o C6_Tail(args)

\* C6 amended: the same order, where the log level line is there exactly when
\* the effective log level (the one passed, else config.logging) is a string
\* or an integer, the log prefix line exactly when a non-empty prefix was
\* passed, the log-console line exactly when log_console is true, and the
\* transport-URL script exactly when a non-empty URL was passed.
C6_HeadOrder ==
    op.name = "get_new_document" =>
        LET args == op.args
            head == documents[op.d].head
            level == IF args.log_level = PyNone THEN config.logging ELSE args.log_level
            lines == C6_Candidates(level, args.log_prefix, C6_Wait(args))
            mask == <<TRUE, level.k \in {"str", "int"},
                      args.log_prefix.k = "str" /\ args.log_prefix.s # "",
                      args.log_console>>
        IN  /\ head[2].id = documents[op.d].title_element
            /\ head[3].id = documents[op.d].autoreload_script
            /\ AnyId(Rest(head, 2)) =
                <<Script(0, "", "")>>
                \o <<Script(0, "", "\n" \o Join(Select(lines, mask), "\n") \o "\n")>>
                \o C6_Tail(args)

\* Everything was passed: four lines, the URL script and the library.
C6_Witness ==
    /\ op.name = "get_new_document"
    /\ op.args.log_level = PyInt(10) /\ op.args.log_prefix = PyStr("app")
    /\ op.args.log_console /\ op.args.ws_url = PyStr("ws://host/rimo_ws")
    /\ op.args.include_rimo /\ op.args.message_wait = PyFloat(0, <<0, 0, 0, 0, 1>>)
    /\ Len(documents[op.d].head) = 6
    /\ documents[op.d].head[4].text =
            "\nvar RIMO_MESSAGE_WAIT = 1e-05\nvar RIMO_LOG_LEVEL = 10\n"
            \o "var RIMO_LOG_PREFIX = 'app'\nvar RIMO_LOG_CONSOLE = true\n"
    /\ documents[op.d].head[6].attr = "_static/js/rimo/rimo.js"

\* ---- C7
\* C7: after build() the placeholder holds the autoreload declaration (and
\* the reload-wait declaration iff reload_wait is not None) when the
\* effective flag is true, and is empty otherwise; the effective flag is the
\* document's own flag when set, else config.autoreload or config.debug.
C7_Autoreload ==
    op.name = "build" =>
        LET doc == documents[op.d]
            own == doc.autoreload
            flag == IF own = "True" THEN TRUE
                    ELSE IF own = "False" THEN FALSE
                    ELSE config.autoreload \/ config.debug
            text == ChildById(doc.head, doc.autoreload_script).text
        IN  /\ flag /\ doc.reload_wait = PyNone => text = "\nvar RIMO_AUTORELOAD = true\n"
            /\ flag /\ doc.reload_wait # PyNone =>
                    text = "\nvar RIMO_AUTORELOAD = true\nvar RIMO_RELOAD_WAIT = "
                           \o Format(doc.reload_wait) \o "\n"
            /\ flag /\ doc.reload_wait = PyFloat(2, <<5, 0>>) =>
                    text = "\nvar RIMO_AUTORELOAD = true\nvar RIMO_RELOAD_WAIT = 2.5\n"
            /\ ~flag => text = ""

\* A document with autoreload=False and a reload_wait was built while the
\* process default enables autoreload.
C7_Witness ==
    /\ op.name = "build"
    /\ documents[op.d].autoreload = "False"
    /\ documents[op.d].reload_wait = PyFloat(2, <<5, 0>>)
    /\ config.autoreload
    /\ ChildById(documents[op.d].head, documents[op.d].autoreload_script).text = ""

\* ---- C8
ExposesNone(theme) ==
    /\ ~theme.css_files.has /\ ~theme.js_files.has
    /\ ~theme.headers.has /\ ~theme.extended_classes.has

\* C8: register_theme raises exactly when the theme has none of css_files,
\* js_files, headers, extended_classes.
C8_RaisesIffNone ==
    op.name = "register_theme" => (~op.ok <=> ExposesNone(op.theme))

\* ---- C9
IsLink(n) == n.tag = "link"
IsScript(n) == n.tag = "script"
IsRaw(n) == n.tag = "raw"

RECURSIVE Links(_)
Links(items) ==
    IF items = <<>> THEN <<>> ELSE <<Link(0, Head(items))>> \o Links(Tail(items))

RECURSIVE Scripts(_)
Scripts(items) ==
    IF items = <<>> THEN <<>> ELSE <<Script(0, Head(items), "")>> \o Scripts(Tail(items))

RECURSIVE Raws(_)
Raws(items) ==
    IF items = <<>> THEN <<>> ELSE <<RawHtml(Head(items))>> \o Raws(Tail(items))

IsPrefix(a, b) == Len(a) <= Len(b) /\ SubSeq(b, 1, Len(a)) = a

\* C9 as stated, for the calls that return normally: head gains, after its
\* old children, the theme's stylesheet links in order, its script references
\* in order and its headers in order, and body's children stay as they were.
C9_Original ==
    [][op'.name = "register_theme" /\ op'.ok =>
        LET d == op'.d
            theme == op'.theme
            added == AnyId(Rest(documents'[d].head, Len(documents[d].head)))
        IN  /\ IsPrefix(documents[d].head, documents'[d].head)
            /\ SelectSeq(added, IsLink) = Links(GetAttr(theme.css_files))
            /\ SelectSeq(added, IsScript) = Scripts(GetAttr(theme.js_files))
            /\ SelectSeq(added, IsRaw) = Raws(GetAttr(theme.headers))
            /\ documents'[d].body = documents[d].body]_vars

\* C9 amended: a register_theme call that returns normally appends to head the
\* theme's stylesheet links in order and then its headers in order as raw
\* content, and appends to body the theme's script references in order;
\* nothing else of the tree changes, so a theme with only a stylesheet
\* sequence of n entries adds n links to the end of head and nothing else.
C9_ThemeAppends ==
    [][op'.name = "register_theme" /\ op'.ok =>
        LET d == op'.d
            theme == op'.theme
        IN  /\ IsPrefix(documents[d].head, documents'[d].head)
            /\ AnyId(Rest(documents'[d].head, Len(documents[d].head))) =
                    Links(GetAttr(theme.css_files)) \o Raws(GetAttr(theme.headers))
            /\ IsPrefix(documents[d].body, documents'[d].body)
            /\ AnyId(Rest(documents'[d].body, Len(documents[d].body))) =
                    Scripts(GetAttr(theme.js_files))
            /\ documents'[d].childNodes = documents[d].childNodes
            /\ documents'[d].html = documents[d].html
            /\ documents'[d].doctype = documents[d].doctype]_vars

\* A theme with only css_files of two entries was registered: head ends with
\* the two links and body is still the one placeholder.
C9_Witness ==
    /\ op.name = "register_theme" /\ op.ok
    /\ op.theme = Theme(Attr(TRUE, <<"a.css", "b.css">>), Absent, Absent, Absent)
    /\ LET head == documents[op.d].head
       IN  /\ Len(head) >= 2
           /\ AnyId(Rest(head, Len(head) - 2)) = <<Link(0, "a.css"), Link(0, "b.css")>>
    /\ AnyId(documents[op.d].body) = <<Script(0, "", "")>>

====
